---- MODULE Spec2Model ----
(***************************************************************************)
(* Model of sample/rotate.py: the AWS Secrets Manager rotation callback    *)
(* handle_event and the secret store it drives through the boto3 client.   *)
(*                                                                         *)
(* One invocation of handle_event is one atomic action: the handlers are   *)
(* synchronous and keep no state of their own; all state is the store.     *)
(* SpecConcurrentFinish alone takes two finishSecret invocations apart     *)
(* into their store calls, to interleave them.                             *)
(* The store is an external collaborator: its three operations used by the *)
(* code are modelled by what the service does at the call sites.           *)
(***************************************************************************)
EXTENDS Integers, Sequences, FiniteSets, TLC

\* ---------------------------------------------------------------- bounds
MaxTokens == 3

\* ------------------------------------------------------------- vocabulary
Tokens == 1..MaxTokens
\* SecretString payloads are opaque to the handlers: the version stored
\* under token t holds the payload SecretStringOf(t), distinct per version
SecretStringOf(t) == <<"pw", t>>

Values == {SecretStringOf(t) : t \in Tokens}

\* prev_version_id: str = ""  -- the empty string is modelled as token 0
NoVersionId == 0

Labels == {"AWSCURRENT", "AWSPENDING", "AWSPREVIOUS"}

SupportedSteps == {"createSecret", "setSecret", "testSecret", "finishSecret"}

\* Step values an event may carry: the four recognised ones and two that are
\* not ("createsecret" differs from a recognised value in case only).
StepValues == SupportedSteps \cup {"rollbackSecret", "createsecret"}

\* event = {"SecretId", "ClientRequestToken", "Step"}; one secret is modelled
Events == [Step : StepValues, ClientRequestToken : Tokens]

\* a token under which nothing is stored
NoVersion == [SecretString |-> <<>>, VersionStages |-> {}]

VersionRecs == [SecretString : Values, VersionStages : SUBSET Labels]

Exists(s, t) == s[t] # NoVersion

Holders(s, label) == {t \in Tokens : label \in s[t].VersionStages}

\* ---------------------------------------------------------------- results
\* What an invocation (or a store call) ends with: None, or a raised error.
Outcome(type, msg, arg) == [type |-> type, msg |-> msg, arg |-> arg]

ReturnNone == Outcome("None", "", "")

NotInvoked == Outcome("NotInvoked", "", "")

\* line 40: the right-hand side is a bare, undefined name
NameError == Outcome("NameError", "name is not defined", "")

\* line 135
NoPreviousVersion == Outcome("RuntimeError", "could not find the previous version ID", "")

\* lines 152-153
StepNotSupported(step) == Outcome("RuntimeError", "secret rotation step not supported", step)

\* errors of the store client
ResourceNotFoundException == Outcome("ClientError", "ResourceNotFoundException", "")

InvalidParameterException == Outcome("ClientError", "InvalidParameterException", "")

Call(op, args) == [op |-> op, args |-> args]

\* ------------------------------------------------------------------ state
VARIABLES
    versions,   \* the secret's versions in the store: token -> version record
    before,     \* the store as it was when the last invocation began
    event,      \* the event of the last invocation
    phase,      \* the branch of handle_event the last invocation took
    result,     \* how the last invocation ended
    calls,      \* the store calls the last invocation made, in order
    scenario,   \* how far the invocations so far follow the end-to-end run
    matches,    \* the AWSCURRENT versions of the last listing, in its order
    finishers,  \* two finishSecret invocations running at once, call by call
    delivery    \* the rotation the store is delivering step by step

vars == <<versions, before, event, phase, result, calls, scenario, matches,
          finishers, delivery>>

NoEvent == [Step |-> "", ClientRequestToken |-> NoVersionId]

\* ------------------------------------------------- the store (boto3 client)
\* Every store operation yields the set of replies the service can give; a
\* reply is the error raised (or None), the value returned, the store after.
Reply(err, value, s) == [err |-> err, value |-> value, store |-> s]

\* put_secret_value(ClientRequestToken, SecretId, SecretString, VersionStages):
\* a new version under the token carrying the given stages, each of which
\* leaves the version that held it; a token that already has a version is
\* accepted unchanged when the value is the same and refused otherwise.
PutSecretValue(s, token, value, stages) ==
    IF Exists(s, token)
    THEN IF s[token].SecretString = value
         THEN {Reply(ReturnNone, "", s)}
         ELSE {Reply(Outcome("ClientError", "ResourceExistsException", ""), "", s)}
    ELSE {Reply(ReturnNone, "",
                [t \in Tokens |->
                    IF t = token
                    THEN [SecretString |-> value, VersionStages |-> stages]
                    ELSE IF Exists(s, t)
                         THEN [s[t] EXCEPT !.VersionStages = @ \ stages]
                         ELSE s[t]])}

\* get_secret_value(SecretId, VersionId)
GetSecretValue(s, token) ==
    IF Exists(s, token)
    THEN {Reply(ReturnNone, s[token].SecretString, s)}
    ELSE {Reply(ResourceNotFoundException, <<>>, s)}

\* the orders in which a set can be listed
Orderings(S) ==
    {f \in [1..Cardinality(S) -> S] :
        \A i, j \in 1..Cardinality(S) : i # j => f[i] # f[j]}

\* list_secret_version_ids(SecretId): {"Versions": [{VersionId, VersionStages}]}
\* in an order the service chooses
ListSecretVersionIds(s) ==
    {[i \in DOMAIN o |-> [VersionId |-> o[i], VersionStages |-> s[o[i]].VersionStages]] :
        o \in Orderings({t \in Tokens : Exists(s, t)})}

\* The store after the label moved, step by step: removeFrom loses the
\* label, moveTo gains it, AWSPREVIOUS leaves whichever version had it and
\* goes to removeFrom (the label being AWSCURRENT), and moveTo keeps or
\* drops AWSPENDING (the service documents both).
MoveLabel(s, stage, moveTo, removeFrom, keepPending) ==
    [t \in Tokens |->
        IF ~Exists(s, t) THEN s[t]
        ELSE LET removed == IF t = removeFrom
                            THEN s[t].VersionStages \ {stage}
                            ELSE s[t].VersionStages
                 added == IF t = moveTo THEN removed \cup {stage} ELSE removed
                 demoted == IF t = removeFrom
                            THEN added \cup {"AWSPREVIOUS"}
                            ELSE added \ {"AWSPREVIOUS"}
             IN  [s[t] EXCEPT !.VersionStages =
                    IF t = moveTo /\ ~keepPending
                    THEN demoted \ {"AWSPENDING"}
                    ELSE demoted]]

\* update_secret_version_stage(SecretId, VersionStage, MoveToVersionId,
\* RemoveFromVersionId): one atomic call.  It is refused when either version
\* is missing or removeFrom does not hold the label.  Asked to move the label
\* onto the version that already holds it, the service may refuse, accept
\* and change nothing, or accept and apply the move as for any other pair.
UpdateSecretVersionStage(s, stage, moveTo, removeFrom) ==
    IF ~(moveTo \in Tokens /\ Exists(s, moveTo))
    THEN {Reply(ResourceNotFoundException, "", s)}
    ELSE IF ~(removeFrom \in Tokens /\ stage \in s[removeFrom].VersionStages)
    THEN {Reply(InvalidParameterException, "", s)}
    ELSE {Reply(ReturnNone, "", MoveLabel(s, stage, moveTo, removeFrom, k)) :
            k \in BOOLEAN}
         \cup (IF moveTo = removeFrom
               THEN {Reply(ReturnNone, "", s), Reply(InvalidParameterException, "", s)}
               ELSE {})

\* ------------------------------------------------------------ handle_event
\* How one invocation ends: the store after it, the value returned or the
\* error raised, and the store calls it made.
Done(s, res, cs) == [store |-> s, result |-> res, calls |-> cs]

\* line 40, `pwd = <name>`: the right-hand side is a bare identifier that no
\* statement of the module binds (generate_password is defined but never
\* called), so evaluating it raises NameError and pwd gets no value.
NewPassword == [raised |-> TRUE, error |-> NameError, value |-> <<>>]

\* Branch with the last elif taken for an else: every value that is not one
\* of the first three runs the finish phase
Branch_ElseFinish(step) ==
    IF step = "createSecret" THEN "create"
    ELSE IF step = "setSecret" THEN "set"
    ELSE IF step = "testSecret" THEN "test"
    ELSE "finish"

\* the if/elif chain of lines 31, 54, 83, 109, 151
Branch(step) ==
    IF step = "createSecret" THEN "create"
    ELSE IF step = "setSecret" THEN "set"
    ELSE IF step = "testSecret" THEN "test"
    ELSE IF step = "finishSecret" THEN "finish"
    ELSE "unsupported"

\* a newly made password, different from every stored payload
FreshSecretString == <<"pw", 0>>

\* createSecret that writes without regard to what the token already holds:
\* the version under the token is replaced by a new AWSPENDING one
createSecret_Overwrite(s, token) ==
    {Done([s EXCEPT ![token] = [SecretString |-> FreshSecretString,
                                VersionStages |-> {"AWSPENDING"}]],
          ReturnNone,
          <<Call("put_secret_value", <<token, FreshSecretString, "AWSPENDING">>)>>)}

\* createSecret that registers the version before it has a value for it, and
\* fails with the version left behind
createSecret_PartialWrite(s, token) ==
    {Done(IF Exists(s, token) THEN s
          ELSE [s EXCEPT ![token] = [SecretString |-> <<>>,
                                     VersionStages |-> {"AWSPENDING"}]],
          NewPassword.error,
          <<Call("put_secret_value", <<token, <<>>, "AWSPENDING">>)>>)}

\* lines 31-52
createSecret(s, token) ==
    IF NewPassword.raised
    THEN {Done(s, NewPassword.error, <<>>)}
    ELSE {Done(r.store, r.err,
               <<Call("put_secret_value", <<token, NewPassword.value, "AWSPENDING">>)>>) :
            r \in PutSecretValue(s, token, NewPassword.value, {"AWSPENDING"})}

\* setSecret that takes AWSPENDING off the version once it has applied it
setSecret_DropPending(s, token) ==
    {Done(IF r.err = ReturnNone
          THEN [s EXCEPT ![token].VersionStages = @ \ {"AWSPENDING"}]
          ELSE s,
          r.err, <<Call("get_secret_value", <<token>>)>>) :
        r \in GetSecretValue(s, token)}

\* lines 54-81: read the version under the token, print, return None
setSecret(s, token) ==
    {Done(r.store, r.err, <<Call("get_secret_value", <<token>>)>>) :
        r \in GetSecretValue(s, token)}

\* testSecret with the read wrapped in a try/except that swallows the error
testSecret_SwallowError(s, token) ==
    {Done(r.store, ReturnNone, <<Call("get_secret_value", <<token>>)>>) :
        r \in GetSecretValue(s, token)}

\* lines 83-107: read the version under the token, print, return None
testSecret(s, token) ==
    {Done(r.store, r.err, <<Call("get_secret_value", <<token>>)>>) :
        r \in GetSecretValue(s, token)}

\* lines 128-132: the scan keeps the VersionId of every match it meets, so
\* it ends with the last version of the listing that carries AWSCURRENT
RECURSIVE ScanCurrent(_, _, _)
ScanCurrent(listing, i, prev_version_id) ==
    IF i > Len(listing)
    THEN prev_version_id
    ELSE ScanCurrent(listing, i + 1,
                     IF "AWSCURRENT" \in listing[i].VersionStages
                     THEN listing[i].VersionId
                     ELSE prev_version_id)

\* PrevVersionId starting the scan from the first listed version instead of ""
PrevVersionId_FirstListed(listing) ==
    ScanCurrent(listing, 1,
                IF Len(listing) > 0 THEN listing[1].VersionId ELSE NoVersionId)

\* PrevVersionId with a break after the first match
PrevVersionId_FirstMatch(listing) ==
    LET hits == {i \in 1..Len(listing) : "AWSCURRENT" \in listing[i].VersionStages}
    IN  IF hits = {}
        THEN NoVersionId
        ELSE listing[CHOOSE i \in hits : \A j \in hits : i <= j].VersionId

PrevVersionId(listing) == ScanCurrent(listing, 1, NoVersionId)

\* the versions of a listing whose VersionStages hold AWSCURRENT, in the
\* order of the listing (the matches of the test at line 131)
CurrentListed(listing) ==
    LET hit(v) == "AWSCURRENT" \in v.VersionStages
        kept == SelectSeq(listing, hit)
    IN  [i \in DOMAIN kept |-> kept[i].VersionId]

\* finishSecret that attaches AWSCURRENT to the token's version and never
\* takes it off the version that held it
finishSecret_AddOnly(s, token, listing) ==
    LET listed == Call("list_secret_version_ids", <<>>)
        moved == Call("update_secret_version_stage", <<"AWSCURRENT", token, NoVersionId>>)
    IN  IF PrevVersionId(listing) = NoVersionId
        THEN {Done(s, NoPreviousVersion, <<listed>>)}
        ELSE IF ~Exists(s, token)
        THEN {Done(s, ResourceNotFoundException, <<listed, moved>>)}
        ELSE {Done([s EXCEPT ![token].VersionStages = @ \cup {"AWSCURRENT"}],
                   ReturnNone, <<listed, moved>>)}

\* finishSecret that moves the label in two store calls: AWSCURRENT is taken
\* off the old version first and attached to the token's version after, so a
\* refusal of the second call leaves the first one done
finishSecret_SplitMove(s, token, listing) ==
    LET prev_version_id == PrevVersionId(listing)
        listed == Call("list_secret_version_ids", <<>>)
        taken == Call("update_secret_version_stage",
                      <<"AWSCURRENT", NoVersionId, prev_version_id>>)
        given == Call("update_secret_version_stage",
                      <<"AWSCURRENT", token, NoVersionId>>)
    IN  IF prev_version_id = NoVersionId
        THEN {Done(s, NoPreviousVersion, <<listed>>)}
        ELSE LET off == [s EXCEPT ![prev_version_id].VersionStages =
                                    (@ \ {"AWSCURRENT"}) \cup {"AWSPREVIOUS"}]
             IN  IF ~Exists(s, token)
                 THEN {Done(off, ResourceNotFoundException, <<listed, taken, given>>)}
                 ELSE {Done(MoveLabel(s, "AWSCURRENT", token, prev_version_id, k),
                            ReturnNone, <<listed, taken, given>>) : k \in BOOLEAN}

\* lines 109-149, for the listing the store returned
finishSecret(s, token, listing) ==
    LET prev_version_id == PrevVersionId(listing)
        listed == Call("list_secret_version_ids", <<>>)
    IN  IF prev_version_id = NoVersionId
        THEN {Done(s, NoPreviousVersion, <<listed>>)}
        ELSE {Done(r.store, r.err,
                   <<listed,
                     Call("update_secret_version_stage",
                          <<"AWSCURRENT", token, prev_version_id>>)>>) :
                r \in UpdateSecretVersionStage(s, "AWSCURRENT", token, prev_version_id)}

\* lines 151-153
unsupportedStep(s, step) == {Done(s, StepNotSupported(step), <<>>)}

\* The end-to-end run: the secret's only version is v1 (token 1), it is
\* AWSCURRENT, and the store delivers the four steps in order for v2 (token 2).
EndToEndRun ==
    << [Step |-> "createSecret", ClientRequestToken |-> 2],
       [Step |-> "setSecret", ClientRequestToken |-> 2],
       [Step |-> "testSecret", ClientRequestToken |-> 2],
       [Step |-> "finishSecret", ClientRequestToken |-> 2] >>

OffScenario == 0 - 1

EndToEndStart(s) ==
    /\ Exists(s, 1)
    /\ s[1].VersionStages = {"AWSCURRENT"}
    /\ \A t \in Tokens \ {1} : ~Exists(s, t)

\* One invocation of handle_event(ev, context) that ends as `out`; `listing`
\* is what list_secret_version_ids returned to it, <<>> when it made no such
\* call.
Handled(ev, out, listing) ==
    /\ matches' = CurrentListed(listing)
    /\ scenario' = IF scenario \in 0..(Len(EndToEndRun) - 1)
                      /\ ev = EndToEndRun[scenario + 1]
                   THEN scenario + 1
                   ELSE OffScenario
    /\ before' = versions
    /\ event' = ev
    /\ phase' = Branch(ev.Step)
    /\ versions' = out.store
    /\ result' = out.result
    /\ calls' = out.calls

\* an invocation delivered on its own, outside the runs below
Invoke(ev, out, listing) ==
    /\ Handled(ev, out, listing)
    /\ UNCHANGED <<finishers, delivery>>

CreateSecret ==
    \E ev \in Events :
        /\ Branch(ev.Step) = "create"
        /\ \E out \in createSecret(versions, ev.ClientRequestToken) : Invoke(ev, out, <<>>)

SetSecret ==
    \E ev \in Events :
        /\ Branch(ev.Step) = "set"
        /\ \E out \in setSecret(versions, ev.ClientRequestToken) : Invoke(ev, out, <<>>)

TestSecret ==
    \E ev \in Events :
        /\ Branch(ev.Step) = "test"
        /\ \E out \in testSecret(versions, ev.ClientRequestToken) : Invoke(ev, out, <<>>)

FinishSecret ==
    \E ev \in Events :
        /\ Branch(ev.Step) = "finish"
        /\ \E listing \in ListSecretVersionIds(versions) :
            \E out \in finishSecret(versions, ev.ClientRequestToken, listing) :
                Invoke(ev, out, listing)

UnsupportedStep ==
    \E ev \in Events :
        /\ Branch(ev.Step) = "unsupported"
        /\ \E out \in unsupportedStep(versions, ev.Step) : Invoke(ev, out, <<>>)

Next ==
    \/ CreateSecret
    \/ SetSecret
    \/ TestSecret
    \/ FinishSecret
    \/ UnsupportedStep

\* ------------------------------------------------- concurrent finishSecret
\* Two invocations of handle_event with Step finishSecret run at once on the
\* same secret.  An invocation makes its two store calls one after the other
\* (lines 125-126, then lines 138-143); each call is atomic at the store and
\* the other invocation's calls may fall between them.
Finishers == {1, 2}

NoFinishers ==
    [p \in Finishers |->
        [pc |-> "idle", token |-> NoVersionId, prev_version_id |-> NoVersionId,
         stale |-> FALSE, result |-> NotInvoked]]

\* lines 125-135: the listing, the scan, the check of its result
FinishList(p) ==
    /\ finishers[p].pc = "start"
    /\ \E listing \in ListSecretVersionIds(versions) :
        LET prev_version_id == PrevVersionId(listing)
        IN  finishers' =
                [finishers EXCEPT ![p] =
                    IF prev_version_id = NoVersionId
                    THEN [@ EXCEPT !.pc = "done", !.result = NoPreviousVersion]
                    ELSE [@ EXCEPT !.pc = "listed",
                                   !.prev_version_id = prev_version_id]]
    /\ UNCHANGED <<versions, before, event, phase, result, calls, scenario,
                   matches, delivery>>

\* lines 138-149: the label move, with the prev_version_id read earlier;
\* `stale` records that the version named no longer held AWSCURRENT
FinishMove(p) ==
    /\ finishers[p].pc = "listed"
    /\ \E r \in UpdateSecretVersionStage(versions, "AWSCURRENT",
                                         finishers[p].token,
                                         finishers[p].prev_version_id) :
        /\ versions' = r.store
        /\ finishers' =
                [finishers EXCEPT ![p] =
                    [@ EXCEPT !.pc = "done",
                              !.result = r.err,
                              !.stale = "AWSCURRENT" \notin
                                  versions[finishers[p].prev_version_id].VersionStages]]
    /\ UNCHANGED <<before, event, phase, result, calls, scenario, matches, delivery>>

ListVersions == \E p \in Finishers : FinishList(p)

MoveStage == \E p \in Finishers : FinishMove(p)

NextConcurrentFinish ==
    \/ ListVersions
    \/ MoveStage

\* ------------------------------------------------------- in-order delivery
\* The store delivers the four steps of one rotation in order for one token:
\* a step that returned is followed by the next one, a step that raised is
\* delivered again.
RotationSteps == <<"createSecret", "setSecret", "testSecret", "finishSecret">>

NoDelivery == [token |-> NoVersionId, next |-> 0, parity |-> 0]

\* handle_event(event, context), lines 23-153
handle_event(s, ev, listing) ==
    CASE Branch(ev.Step) = "create" -> createSecret(s, ev.ClientRequestToken)
      [] Branch(ev.Step) = "set" -> setSecret(s, ev.ClientRequestToken)
      [] Branch(ev.Step) = "test" -> testSecret(s, ev.ClientRequestToken)
      [] Branch(ev.Step) = "finish" -> finishSecret(s, ev.ClientRequestToken, listing)
      [] OTHER -> unsupportedStep(s, ev.Step)

\* One delivery; `parity` is the number of deliveries of the step, modulo 2.
Deliver ==
    /\ delivery.next \in 1..Len(RotationSteps)
    /\ LET ev == [Step |-> RotationSteps[delivery.next],
                  ClientRequestToken |-> delivery.token]
       IN  \E listing \in ListSecretVersionIds(versions) :
             \E out \in handle_event(versions, ev, listing) :
                /\ Handled(ev, out, IF Branch(ev.Step) = "finish" THEN listing ELSE <<>>)
                /\ delivery' =
                      IF out.result = ReturnNone
                      THEN [delivery EXCEPT !.next = @ + 1, !.parity = 0]
                      ELSE [delivery EXCEPT !.parity = 1 - @]
    /\ UNCHANGED finishers

NextRotation == Deliver

\* ------------------------------------------------------------ initial state
\* The stores a secret can be in when a rotation is delivered: a token has
\* no version, or a version that carries no label or one label, and every
\* label is carried by at most one version.
Slots == {"absent", "unlabelled"} \cup Labels

Stores ==
    {[t \in Tokens |->
        IF slot[t] = "absent" THEN NoVersion
        ELSE [SecretString |-> SecretStringOf(t),
              VersionStages |-> {slot[t]} \cap Labels]] :
      slot \in {f \in [Tokens -> Slots] :
                  \A l \in Labels : Cardinality({t \in Tokens : f[t] = l}) <= 1}}

Idle(s) ==
    /\ versions = s
    /\ before = s
    /\ event = NoEvent
    /\ phase = ""
    /\ result = NotInvoked
    /\ calls = <<>>
    /\ scenario = IF EndToEndStart(s) THEN 0 ELSE OffScenario
    /\ matches = <<>>
    /\ finishers = NoFinishers
    /\ delivery = NoDelivery

\* a secret with exactly one AWSCURRENT version
Init == \E s \in Stores : Cardinality(Holders(s, "AWSCURRENT")) = 1 /\ Idle(s)

Spec == Init /\ [][Next]_vars

\* any secret, also one no version of which is AWSCURRENT
InitAnyStore == \E s \in Stores : Idle(s)

SpecAnyStore == InitAnyStore /\ [][Next]_vars

\* two finishSecret invocations for different tokens, about to start on a
\* secret with exactly one AWSCURRENT version
InitConcurrentFinish ==
    \E s \in Stores :
        /\ Cardinality(Holders(s, "AWSCURRENT")) = 1
        /\ versions = s
        /\ before = s
        /\ event = NoEvent
        /\ phase = ""
        /\ result = NotInvoked
        /\ calls = <<>>
        /\ scenario = OffScenario
        /\ matches = <<>>
        /\ delivery = NoDelivery
        /\ \E t1, t2 \in Tokens :
            /\ t1 # t2
            /\ finishers = [p \in Finishers |->
                                [NoFinishers[p] EXCEPT
                                    !.pc = "start",
                                    !.token = IF p = 1 THEN t1 ELSE t2]]

SpecConcurrentFinish == InitConcurrentFinish /\ [][NextConcurrentFinish]_vars

\* a rotation about to be delivered for some token on a secret with exactly
\* one AWSCURRENT version; every step that is due is eventually delivered
InitRotation ==
    \E s \in Stores :
        /\ Cardinality(Holders(s, "AWSCURRENT")) = 1
        /\ versions = s
        /\ before = s
        /\ event = NoEvent
        /\ phase = ""
        /\ result = NotInvoked
        /\ calls = <<>>
        /\ scenario = OffScenario
        /\ matches = <<>>
        /\ finishers = NoFinishers
        /\ \E t \in Tokens : delivery = [token |-> t, next |-> 1, parity |-> 0]

SpecRotation == InitRotation /\ [][NextRotation]_vars /\ WF_vars(Deliver)

\* The stores whose label bookkeeping is already broken when the rotation is
\* delivered: two or more versions carry AWSCURRENT.
StoresSeveralCurrent ==
    {[t \in Tokens |->
        IF slot[t] = "absent" THEN NoVersion
        ELSE [SecretString |-> SecretStringOf(t),
              VersionStages |-> {slot[t]} \cap Labels]] :
      slot \in {f \in [Tokens -> Slots] :
                  /\ Cardinality({t \in Tokens : f[t] = "AWSCURRENT"}) >= 2
                  /\ \A l \in Labels \ {"AWSCURRENT"} :
                        Cardinality({t \in Tokens : f[t] = l}) <= 1}}

InitSeveralCurrent == \E s \in StoresSeveralCurrent : Idle(s)

SpecSeveralCurrent == InitSeveralCurrent /\ [][Next]_vars

\* ================================================================= claims
Token == event.ClientRequestToken

Invoked == event # NoEvent

CurrentBefore == Holders(before, "AWSCURRENT")

CurrentNow == Holders(versions, "AWSCURRENT")

\* the error kinds of the specification, as the code raises them
MissingCurrentVersionError == NoPreviousVersion

UnsupportedStepError(step) == StepNotSupported(step)

\* C1: starting from a secret with exactly one AWSCURRENT version, after any
\* sequence of invocations at most one version carries AWSCURRENT, at most
\* one AWSPENDING and at most one AWSPREVIOUS.
LabelUniqueness ==
    \A l \in Labels : Cardinality(Holders(versions, l)) <= 1

\* C1 witness: a finish has moved AWSCURRENT onto a version that was pending
\* while a third version was AWSPREVIOUS, and AWSPREVIOUS changed hands.
LabelUniquenessWitness ==
    /\ phase = "finish"
    /\ result = ReturnNone
    /\ "AWSPENDING" \in before[Token].VersionStages
    /\ CurrentNow = {Token}
    /\ CurrentBefore # {Token}
    /\ Holders(before, "AWSPREVIOUS") # {}
    /\ Holders(before, "AWSPREVIOUS") # Holders(versions, "AWSPREVIOUS")

\* C2: in every state between invocations exactly one version is AWSCURRENT;
\* a finish leaves AWSCURRENT on exactly one of the old current version and
\* the request token's version, never on both and never on neither.
ExactlyOneCurrent ==
    /\ Cardinality(CurrentNow) = 1
    /\ phase = "finish" =>
        Cardinality(CurrentNow \cap (CurrentBefore \cup {Token})) = 1

\* C2 witness: a finish succeeded and AWSCURRENT is on another version than
\* before.
ExactlyOneCurrentWitness ==
    /\ phase = "finish"
    /\ result = ReturnNone
    /\ CurrentNow # CurrentBefore

\* C3: a createSecret for a token that has no version returns success having
\* stored one new version under the token, holding a generated value and
\* labelled AWSPENDING, and changes no other version's payload.
CreateStoresPendingVersion ==
    (phase = "create" /\ ~Exists(before, Token)) =>
        /\ result = ReturnNone
        /\ Exists(versions, Token)
        /\ versions[Token].VersionStages = {"AWSPENDING"}
        /\ \A t \in Tokens \ {Token} :
            /\ Exists(versions, t) = Exists(before, t)
            /\ versions[t].SecretString = before[t].SecretString

\* C4: every createSecret returns success and leaves one stored version for
\* the token; when the token already had a version the invocation makes no
\* store mutation.
CreateIsIdempotent ==
    phase = "create" =>
        /\ result = ReturnNone
        /\ Exists(versions, Token)
        /\ Exists(before, Token) =>
            /\ versions = before
            /\ \A i \in DOMAIN calls : calls[i].op # "put_secret_value"

\* C5: a finishSecret whose token's version is already AWSCURRENT is treated
\* as success with no mutation: it returns success, issues no label move and
\* leaves the whole store unchanged.
FinishAlreadyCurrentIsNoOp ==
    (phase = "finish" /\ Token \in CurrentBefore) =>
        /\ result = ReturnNone
        /\ versions = before
        /\ \A i \in DOMAIN calls : calls[i].op # "update_secret_version_stage"

\* C6: a finishSecret that finds no version carrying AWSCURRENT fails with
\* MissingCurrentVersionError, issues no label move and mutates nothing.
FinishWithoutCurrentFails ==
    (phase = "finish" /\ CurrentBefore = {}) =>
        /\ result = MissingCurrentVersionError
        /\ versions = before
        /\ calls = <<Call("list_secret_version_ids", <<>>)>>

\* C6 witness: a finish ran on a secret that has versions, none AWSCURRENT.
FinishWithoutCurrentWitness ==
    /\ phase = "finish"
    /\ CurrentBefore = {}
    /\ Exists(before, Token)
    /\ result = MissingCurrentVersionError

\* C8: whatever an invocation other than a successful finishSecret does, and
\* however it fails, the version that was AWSCURRENT before it is still
\* AWSCURRENT after it and holds the same payload.
OldCurrentSurvivesFailure ==
    (Invoked /\ ~(phase = "finish" /\ result = ReturnNone)) =>
        \A t \in CurrentBefore :
            /\ "AWSCURRENT" \in versions[t].VersionStages
            /\ versions[t].SecretString = before[t].SecretString

\* C8 witness: a finish failed at the label move (its token has no version)
\* on a secret that had an AWSCURRENT version.
OldCurrentSurvivesFailureWitness ==
    /\ phase = "finish"
    /\ result = ResourceNotFoundException
    /\ Len(calls) = 2
    /\ CurrentBefore # {}

\* the phase handler each recognised Step value names
HandlerOf ==
    [s \in SupportedSteps |->
        CASE s = "createSecret" -> "create"
          [] s = "setSecret" -> "set"
          [] s = "testSecret" -> "test"
          [] s = "finishSecret" -> "finish"]

\* the store operations each phase handler uses
StoreCallsOf(h) ==
    CASE h = "create" -> {"put_secret_value"}
      [] h = "set" -> {"get_secret_value"}
      [] h = "test" -> {"get_secret_value"}
      [] h = "finish" -> {"list_secret_version_ids", "update_secret_version_stage"}
      [] OTHER -> {}

\* C9: an event whose Step is none of the four recognised values fails with
\* UnsupportedStepError naming the value, makes no store call and changes
\* nothing; an event with a recognised Step runs that step's handler only.
UnsupportedStepFails ==
    Invoked =>
        IF event.Step \in SupportedSteps
        THEN /\ phase = HandlerOf[event.Step]
             /\ \A i \in DOMAIN calls : calls[i].op \in StoreCallsOf(HandlerOf[event.Step])
        ELSE /\ phase = "unsupported"
             /\ result = UnsupportedStepError(event.Step)
             /\ calls = <<>>
             /\ versions = before

\* C9 witness: the step "rollbackSecret" was delivered and refused.
UnsupportedStepWitness ==
    /\ event.Step = "rollbackSecret"
    /\ result.type = "RuntimeError"
    /\ result.arg = "rollbackSecret"

\* C10: from a secret whose only version v1 is AWSCURRENT, createSecret,
\* setSecret, testSecret, finishSecret delivered in that order for v2 all
\* return success and end with v2 AWSCURRENT, v1 AWSPREVIOUS and no other
\* version labelled.
EndToEndSuccess ==
    /\ scenario \in 1..Len(EndToEndRun) => result = ReturnNone
    /\ scenario = Len(EndToEndRun) =>
        /\ CurrentNow = {2}
        /\ Holders(versions, "AWSPREVIOUS") = {1}
        /\ \A t \in Tokens \ {1, 2} : versions[t].VersionStages = {}

\* C12: every version carries at most one of AWSPENDING, AWSCURRENT and
\* AWSPREVIOUS; in particular, once a successful finishSecret has promoted
\* the request token's version, that version carries AWSCURRENT and no other
\* label.  Stated for the states that follow a promotion.
LabelsMutuallyExclusive ==
    (phase = "finish" /\ result = ReturnNone /\ Token \notin CurrentBefore) =>
        /\ versions[Token].VersionStages = {"AWSCURRENT"}
        /\ \A t \in Tokens : Cardinality(versions[t].VersionStages) <= 1

\* C13: a version's payload, once written, is the same after every
\* invocation, a redelivered createSecret for its token included.
PayloadImmutable ==
    \A t \in Tokens :
        Exists(before, t) =>
            /\ Exists(versions, t)
            /\ versions[t].SecretString = before[t].SecretString

\* C13 witness: createSecret was delivered for a token that already had a
\* version.
PayloadImmutableWitness ==
    /\ phase = "create"
    /\ Exists(before, Token)
    /\ versions[Token].SecretString = SecretStringOf(Token)

\* C14: a setSecret, whether it succeeds or fails, makes one read of the
\* version under its token and leaves every label set and payload unchanged.
SetChangesNothing ==
    phase = "set" =>
        /\ versions = before
        /\ calls = <<Call("get_secret_value", <<Token>>)>>

\* C14 witness: a setSecret succeeded on a pending version.
SetChangesNothingWitness ==
    /\ phase = "set"
    /\ result = ReturnNone
    /\ "AWSPENDING" \in before[Token].VersionStages

\* the store's error kinds under the specification's names
NotFoundError == ResourceNotFoundException

IsStoreError(r) == r.type = "ClientError"

\* C16: when a store call of a handler fails the handler fails with the
\* store's error: the read of a missing version in setSecret and testSecret
\* gives NotFoundError, and a refused label move in finishSecret gives the
\* store's error; the failed call is the last call made and the invocation
\* does not return success.
ErrorsPropagate ==
    /\ (phase \in {"set", "test"} /\ ~Exists(before, Token)) =>
        /\ result = NotFoundError
        /\ Len(calls) = 1
    /\ (phase = "finish" /\ CurrentBefore # {} /\ ~Exists(before, Token)) =>
        /\ result = NotFoundError
        /\ Len(calls) = 2
        /\ calls[2].op = "update_secret_version_stage"
    /\ (phase = "finish" /\ Len(calls) = 2 /\ result # ReturnNone) =>
        /\ IsStoreError(result)
        /\ versions = before

\* C16 witness: a testSecret was delivered for a token that has no version.
ErrorsPropagateWitness ==
    /\ phase = "test"
    /\ ~Exists(before, Token)
    /\ result = NotFoundError

FinishWithoutCandidate ==
    (phase = "finish" /\ ~Exists(before, Token)) =>
        /\ result # ReturnNone
        /\ versions = before
        /\ CurrentNow = CurrentBefore
        /\ ~Exists(versions, Token)

\* C20 witness: a finishSecret for a token without a version reached the
\* label move on a secret with an AWSCURRENT version, and was refused.
FinishWithoutCandidateWitness ==
    /\ phase = "finish"
    /\ ~Exists(before, Token)
    /\ CurrentBefore # {}
    /\ calls[Len(calls)].op = "update_secret_version_stage"
    /\ result = NotFoundError

\* the RemoveFromVersionId of the label move the last invocation issued
RemovedFrom == calls[Len(calls)].args[3]

MoveIssued ==
    /\ Len(calls) > 0
    /\ calls[Len(calls)].op = "update_secret_version_stage"

\* C17 (as claimed): when more than one listed version carries AWSCURRENT,
\* finishSecret takes AWSCURRENT off the first match of the listing.
FirstCurrentMatchChosen ==
    (phase = "finish" /\ Len(matches) > 1) =>
        /\ MoveIssued
        /\ RemovedFrom = matches[1]

\* C17 (amended): when more than one listed version carries AWSCURRENT,
\* finishSecret takes AWSCURRENT off the last match of the listing.
LastCurrentMatchChosen ==
    (phase = "finish" /\ Len(matches) > 1) =>
        /\ MoveIssued
        /\ RemovedFrom = matches[Len(matches)]

\* C17 witness: a finish ran over a listing with several AWSCURRENT versions
\* and its label move was accepted.
LastCurrentMatchChosenWitness ==
    /\ phase = "finish"
    /\ Len(matches) > 1
    /\ result = ReturnNone
    /\ Token \notin CurrentBefore
    /\ RemovedFrom \notin CurrentNow

\* How far the attempt of token t has come, as far as the secret shows it:
\* NONE (no version), PENDING_* (a version that is not AWSCURRENT; which of
\* create, set and test have completed is kept by the store that delivers
\* the steps, not by the handlers), CURRENT.
AttemptRank(s, t) ==
    IF ~Exists(s, t) THEN 0
    ELSE IF "AWSCURRENT" \notin s[t].VersionStages THEN 1
    ELSE 2

\* C15: no invocation moves the attempt of its request token backwards (a
\* version that exists still exists, a version that is AWSCURRENT is still
\* AWSCURRENT, also when an earlier step is redelivered after the finish),
\* and a failed testSecret leaves the token's version exactly as it was.
ForwardOnly ==
    Invoked =>
        /\ AttemptRank(versions, Token) >= AttemptRank(before, Token)
        /\ (phase = "test" /\ result # ReturnNone) => versions[Token] = before[Token]

\* C15 witness: createSecret was redelivered for a token whose version is
\* already AWSCURRENT, and it still is.
ForwardOnlyWitness ==
    /\ phase = "create"
    /\ AttemptRank(before, Token) = 2
    /\ AttemptRank(versions, Token) = 2

BothFinished == \A p \in Finishers : finishers[p].pc = "done"

\* C11: of two finishSecret invocations running at once neither issues a
\* label move naming a RemoveFromVersionId that no longer holds AWSCURRENT,
\* and when both have completed exactly one version carries AWSCURRENT.
ConcurrentFinishNotSplit ==
    /\ \A p \in Finishers : ~finishers[p].stale
    /\ BothFinished => Cardinality(CurrentNow) = 1

\* C19: a rotation delivered in order, each failed step redelivered, on a
\* secret with one AWSCURRENT version eventually has the request token's
\* version AWSCURRENT.
RotationCompletes ==
    <>(delivery.token \in CurrentNow)

====
